---- MODULE Spec2Model ----
(***************************************************************************)
(* Order placement, fulfilment and the inventory ledger of the e-commerce  *)
(* backend, over a PostgreSQL database at READ COMMITTED: every statement  *)
(* reads the committed rows (and the transaction's own writes), an UPDATE  *)
(* takes the row's lock until the transaction ends, and a thrown error     *)
(* inside prisma.$transaction rolls the whole transaction back.            *)
(* Quantities and prices are integers (units of the smallest step).        *)
(***************************************************************************)
EXTENDS Integers, Sequences, FiniteSets, TLC

\* ---------------------------------------------------------------- bounds
MaxOps == 2
MaxLifecycleOps == 4
MaxOrders == 2
MaxStock == 3
MaxReviewOps == 3
MaxReviews == 2
MaxCategoryOps == 3
MaxCategories == 3

\* ------------------------------------------------------------ value sets
Null == 0
Undefined == -1
Txs == {1, 2}
Products == {1, 2}
Users == {1, 2}
Guests == {1}
OrderIds == 1..MaxOrders
Quantities == {1, 2}
Prices == {Undefined, 7}
Costs == {Undefined, 4}
StockChanges == {-1, 1}
NewStocks == {0, 1, 2}
Categories == {1}
SaleTypes == {"kg", "piece"}
InitialStock == 2
ReviewIds == 1..MaxReviews
Ratings == {2, 4, 6}
CategoryIds == 1..MaxCategories

OrderStatuses == {"Created", "Shipped", "Delivered", "Cancelled"}
PaymentStatuses == {"Pending", "Completed", "Failed", "Refunded"}
StockReasons == {"purchase", "admin_add", "admin_remove", "cancellation"}

VARIABLES
  product,      \* products table: product_id -> row
  ledger,       \* stock_transactions table, in insertion order
  orders,       \* orders table: order_id -> row
  orderItems,   \* order_items table (primary key order_id, product_id)
  payments,     \* payments table, in insertion order
  history,      \* order_status_history table, in insertion order
  cartItems,    \* cart_items: user_id -> product_id -> quantity (0: no row)
  nextOrderId,  \* the orders identity sequence (never rolled back)
  tx,           \* the requests in flight: their locals and uncommitted writes
  ops,          \* requests begun so far
  reviews,      \* product_reviews table: review_id -> row
  stats,        \* products.average_rating and reviews_count: product_id -> pair
  nextReviewId, \* the product_reviews identity sequence
  rtx,          \* the review requests in flight
  rops,         \* review requests begun so far
  category,     \* categories table: category_id -> row
  ctx,          \* the category requests in flight
  cops          \* category requests begun so far

db == <<product, ledger, orders, orderItems, payments, history, cartItems>>
reviewVars == <<reviews, stats, nextReviewId, rtx, rops>>
categoryVars == <<category, ctx, cops>>
aside == <<reviewVars, categoryVars>>
shop == <<product, ledger, orders, orderItems, payments, history, cartItems,
          nextOrderId, tx, ops>>
vars == <<product, ledger, orders, orderItems, payments, history, cartItems,
          nextOrderId, tx, ops, reviews, stats, nextReviewId, rtx, rops,
          category, ctx, cops>>

\* ------------------------------------------------------------------ rows
NoProduct == [exists |-> FALSE, is_active |-> FALSE, price |-> 0,
              cost_price |-> 0, stock_quantity |-> 0]
NoOrder == [user_id |-> Null, guest_id |-> Null, status |-> "None",
            total_products_price |-> 0, shipping_fees |-> 0,
            discount_amount |-> 0, final_total |-> 0, delivered_at |-> FALSE]
NoCart == [p \in Products |-> 0]

StockRow(p, change, reason, order) ==
  [product_id |-> p, quantity_change |-> change, reason |-> reason,
   related_order_id |-> order]

\* ------------------------------------------------------ schema constraints
\* CHECK (stock_quantity >= 0) on products.
StockCheckNoFloor(q) == TRUE
StockCheck(q) == q >= 0

\* payment_status_check on payments.
PaymentStatusCheckAlsoCancelled(s) == s \in PaymentStatuses \cup {"Cancelled"}
PaymentStatusCheckAny(s) == TRUE
PaymentStatusCheck(s) == s \in PaymentStatuses

\* check_user_or_guest on orders.
CheckUserOrGuest(order) ==
  \/ order.user_id # Null /\ order.guest_id = Null
  \/ order.user_id = Null /\ order.guest_id # Null

\* PRIMARY KEY (order_id, product_id) on order_items.
OrderItemKeyFreeAlways(rows, o, p) == TRUE
OrderItemKeyFree(rows, o, p) ==
  ~ \E r \in rows : r.order_id = o /\ r.product_id = p

\* --------------------------------------------------------- transactions
IdleTx ==
  [op |-> "none", pc |-> "idle", result |-> "none",
   user_id |-> Null, guest_id |-> Null, items |-> << >>,
   order_id |-> Null, new_status |-> "None", product_id |-> Null,
   quantity_change |-> 0, reason |-> "none",
   price |-> 0, cost_price |-> 0,
   i |-> 0, validatedItems |-> << >>, total_products_price |-> 0,
   old_status |-> "None", currentStock |-> 0, started |-> 0,
   locks |-> {}, wStock |-> [p \in Products |-> 0],
   wOrders |-> {}, wItems |-> {}, wLedger |-> << >>, wPayments |-> << >>,
   wPaymentStatus |-> {}, wHistory |-> << >>, wCartClear |-> {}]

Free(t) == tx[t].pc \in {"idle", "done"}

ProductLock(p) == <<"product", p>>
OrderLock(o) == <<"order", o>>

LockedByOther(t, row) == \E u \in Txs \ {t} : row \in tx[u].locks

\* The stock a statement of t sees: the committed row, plus t's own updates.
Visible(t, p) == product[p].stock_quantity + tx[t].wStock[p]

\* now() in a column default: the time at which the transaction began. The
\* requests begin one after another, so the count of requests begun is a clock.
Now(r) == r.started

\* ----------------------------------------------------------- end of a tx
\* What a finished request leaves behind: its inputs and its result.
Finished(r, result) ==
  [IdleTx EXCEPT !.op = r.op, !.pc = "done", !.result = result,
                 !.user_id = r.user_id, !.guest_id = r.guest_id,
                 !.items = IF r.op = "placeOrder" THEN r.items ELSE << >>,
                 !.order_id = r.order_id, !.new_status = r.new_status,
                 !.product_id = r.product_id,
                 !.quantity_change = r.quantity_change, !.reason = r.reason]

ApplyOrders(w) ==
  [o \in OrderIds |->
     IF \E e \in w : e[1] = o THEN (CHOOSE e \in w : e[1] = o)[2] ELSE orders[o]]

ApplyPayments(new, upd) ==
  [k \in 1..Len(payments) |->
     IF \E e \in upd : e[1] = payments[k].order_id
       THEN [payments[k] EXCEPT
               !.status = (CHOOSE e \in upd : e[1] = payments[k].order_id)[2]]
       ELSE payments[k]] \o new

\* COMMIT: the transaction's writes become the committed rows, all at once.
CommitWrites(r) ==
  /\ product' = [p \in Products |->
       [product[p] EXCEPT !.stock_quantity = @ + r.wStock[p]]]
  /\ ledger' = ledger \o r.wLedger
  /\ orders' = ApplyOrders(r.wOrders)
  /\ orderItems' = orderItems \cup r.wItems
  /\ payments' = ApplyPayments(r.wPayments, r.wPaymentStatus)
  /\ history' = history \o r.wHistory
  /\ cartItems' = [u \in Users |->
       IF u \in r.wCartClear THEN NoCart ELSE cartItems[u]]

\* A rollback that keeps the order header and its items.
RollbackKeepingOrder(r) ==
  /\ orders' = ApplyOrders(r.wOrders)
  /\ orderItems' = orderItems \cup r.wItems
  /\ UNCHANGED <<product, ledger, payments, history, cartItems>>

\* ROLLBACK: none of the transaction's writes is kept.
Rollback(r) == UNCHANGED db

Commit(t, r) ==
  /\ CommitWrites(r)
  /\ tx' = [tx EXCEPT ![t] = Finished(r, "ok")]

Abort(t, r, error) ==
  /\ Rollback(r)
  /\ tx' = [tx EXCEPT ![t] = Finished(r, error)]

\* A request rejected before it touches storage.
Reject(t, r, error) ==
  /\ UNCHANGED db
  /\ tx' = [tx EXCEPT ![t] = Finished(r, error)]

Step(t, r) ==
  /\ UNCHANGED db
  /\ tx' = [tx EXCEPT ![t] = r]

\* ------------------------------------------------------------ placeOrder
Item(p, q) == [product_id |-> p, quantity |-> q]

\* Order ids still to be drawn by the placements in flight.
PendingCreates ==
  Cardinality({u \in Txs : tx[u].op = "placeOrder" /\ tx[u].pc = "validate"})

\* The owner test: both ids given, or neither.
OwnerAmbiguousBothOnly(user_id, guest_id) == user_id # Null /\ guest_id # Null
OwnerAmbiguous(user_id, guest_id) ==
  (user_id # Null /\ guest_id # Null) \/ (user_id = Null /\ guest_id = Null)

\* The request arrives; the checks made before the transaction opens.
PlaceOrderBegin(t, user_id, guest_id, items) ==
  /\ Free(t)
  /\ nextOrderId + PendingCreates <= MaxOrders
  /\ LET r == [IdleTx EXCEPT !.op = "placeOrder", !.user_id = user_id,
                             !.guest_id = guest_id, !.items = items]
     IN IF OwnerAmbiguous(user_id, guest_id)
          THEN Reject(t, r, "OwnerAmbiguous")
          ELSE IF Len(items) = 0
            THEN Reject(t, r, "EmptyOrder")
            ELSE Step(t, [r EXCEPT !.pc = "validate", !.i = 1,
                                   !.started = ops + 1])
  /\ ops' = ops + 1
  /\ UNCHANGED nextOrderId
  /\ UNCHANGED aside

\* The quantity a list of items asks of product p.
RECURSIVE SumQuantity(_, _)
SumQuantity(v, p) ==
  IF v = << >> THEN 0
  ELSE (IF Head(v).product_id = p THEN Head(v).quantity ELSE 0)
       + SumQuantity(Tail(v), p)

\* The stock an item is tested against: the product's, as read at that turn.
StockAtCheckLessEarlier(r, p) ==
  product[p].stock_quantity - SumQuantity(r.validatedItems, p)
StockAtCheck(r, p) == product[p].stock_quantity

\* The stock test of the validation loop: the order is refused when it fails.
InsufficientOffByOne(quantity, stock_quantity) == quantity > stock_quantity + 1
Insufficient(quantity, stock_quantity) == quantity > stock_quantity

\* The order header written by order.create.
NewOrder(r) ==
  [user_id |-> r.user_id, guest_id |-> r.guest_id, status |-> "Created",
   total_products_price |-> r.total_products_price,
   shipping_fees |-> 0, discount_amount |-> 0,
   final_total |-> r.total_products_price + 0 - 0,
   delivered_at |-> FALSE]

\* order.create: the header, under the next id of the sequence.
CreateOrder(r) ==
  [r EXCEPT !.order_id = nextOrderId,
            !.wOrders = {<<nextOrderId, NewOrder(r)>>},
            !.pc = "items", !.i = 1]

\* One turn of the validation loop: read the product, test it, keep its
\* snapshot; after the last turn, order.create.
PlaceOrderValidate(t) ==
  /\ tx[t].op = "placeOrder" /\ tx[t].pc = "validate"
  /\ LET r == tx[t]
         item == r.items[r.i]
         p == product[item.product_id]
         subtotal == item.quantity * p.price
         last == r.i = Len(r.items)
         v == [r EXCEPT
                 !.total_products_price = @ + subtotal,
                 !.validatedItems = Append(@,
                    [product_id |-> item.product_id, price |-> p.price,
                     cost_price |-> p.cost_price, quantity |-> item.quantity]),
                 !.i = r.i + 1]
     IN IF ~(p.exists /\ p.is_active)
          THEN Abort(t, r, "ProductNotFound") /\ UNCHANGED nextOrderId
          ELSE IF Insufficient(item.quantity, StockAtCheck(r, item.product_id))
            THEN Abort(t, r, "InsufficientStock") /\ UNCHANGED nextOrderId
            ELSE IF last /\ ~CheckUserOrGuest(NewOrder(v))
              THEN Abort(t, r, "ConstraintViolation") /\ UNCHANGED nextOrderId
            ELSE IF last
              THEN Step(t, CreateOrder(v)) /\ nextOrderId' = nextOrderId + 1
              ELSE Step(t, v) /\ UNCHANGED nextOrderId
  /\ UNCHANGED ops
  /\ UNCHANGED aside

\* The order_items row of a validated item: the snapshot taken at check time.
OrderItemRowCurrentPrice(order_id, item) ==
  [order_id |-> order_id, product_id |-> item.product_id,
   quantity |-> item.quantity,
   price_at_purchase |-> product[item.product_id].price,
   cost_price_at_purchase |-> product[item.product_id].cost_price]
OrderItemRow(order_id, item) ==
  [order_id |-> order_id, product_id |-> item.product_id,
   quantity |-> item.quantity, price_at_purchase |-> item.price,
   cost_price_at_purchase |-> item.cost_price]

\* The carts whose items a placement deletes: its user's, if it has one.
CartToClearNone(r) == {}
CartToClear(r) == IF r.user_id # Null THEN {r.user_id} ELSE {}

\* The payment, the first history row and the cart clearing that end a placement.
FinishOrder(r) ==
  [r EXCEPT
     !.wPayments = Append(@, [order_id |-> r.order_id,
                              payment_method |-> "cash_on_delivery",
                              amount |-> NewOrder(r).final_total,
                              status |-> "Pending"]),
     !.wHistory = Append(@, [order_id |-> r.order_id,
                             old_status |-> "None",
                             new_status |-> "Created",
                             changed_at |-> Now(r)]),
     !.wCartClear = CartToClear(r)]

\* One turn of the write loop: the item row, the decrement, the ledger row;
\* after the last turn the payment, the history row, the cart and the commit.
PlaceOrderItem(t) ==
  /\ tx[t].op = "placeOrder" /\ tx[t].pc = "items"
  /\ LET r == tx[t]
         item == r.validatedItems[r.i]
         p == item.product_id
         last == r.i = Len(r.validatedItems)
         w == [r EXCEPT
                 !.wItems = @ \cup {OrderItemRow(r.order_id, item)},
                 !.wStock[p] = @ - item.quantity,
                 !.locks = @ \cup {ProductLock(p)},
                 !.wLedger = Append(@,
                    StockRow(p, -item.quantity, "purchase", r.order_id)),
                 !.i = r.i + 1]
     IN IF ~OrderItemKeyFree(orderItems \cup r.wItems, r.order_id, p)
          THEN Abort(t, r, "ConstraintViolation")
          ELSE /\ ~LockedByOther(t, ProductLock(p))
               /\ IF ~StockCheck(Visible(t, p) - item.quantity)
                    THEN Abort(t, r, "ConstraintViolation")
                    ELSE IF ~last
                      THEN Step(t, w)
                      ELSE IF ~PaymentStatusCheck("Pending")
                        THEN Abort(t, w, "ConstraintViolation")
                        ELSE Commit(t, FinishOrder(w))
  /\ UNCHANGED <<nextOrderId, ops>>
  /\ UNCHANGED aside

\* ----------------------------------------------------------- fulfilment
\* The status changes the admin operation accepts (its transitions table).
TransitionsSkippingShipped(status) ==
  CASE status = "Created" -> {"Shipped", "Delivered", "Cancelled"}
    [] status = "Shipped" -> {"Delivered", "Cancelled"}
    [] OTHER -> {}
Transitions(status) ==
  CASE status = "Created" -> {"Shipped", "Cancelled"}
    [] status = "Shipped" -> {"Delivered", "Cancelled"}
    [] OTHER -> {}

\* The statuses the admin operation takes as a target.
ValidStatuses == {"Shipped", "Delivered", "Cancelled"}

\* orderItem.findMany: the order's committed rows, in the order the database
\* hands them out (unspecified without ORDER BY).
ItemsOf(o) == {it \in orderItems : it.order_id = o}
ItemSeqs(S) ==
  {f \in [1..Cardinality(S) -> S] : \A a \in S : \E k \in 1..Cardinality(S) : f[k] = a}

PaymentsOf(r, o) ==
  {k \in 1..Len(payments) : payments[k].order_id = o}

\* The customer's cancellation is open while the order has this status only.
CancellableAlsoShipped(status) == status \in {"Created", "Shipped"}
Cancellable(status) == status = "Created"

CancelOrderBegin(t, order_id, user_id) ==
  /\ Free(t)
  /\ Step(t, [IdleTx EXCEPT !.op = "cancelOrder", !.order_id = order_id,
                            !.user_id = user_id, !.pc = "read",
                            !.started = ops + 1])
  /\ ops' = ops + 1
  /\ UNCHANGED nextOrderId
  /\ UNCHANGED aside

\* The controller of the cancellation: a caller with role Guest is turned away
\* before the service is called; any other caller's user_id goes to the service.
CancelOrderController(t, role, order_id, caller_id) ==
  IF role = "Guest"
    THEN /\ Free(t)
         /\ Reject(t, [IdleTx EXCEPT !.op = "cancelOrder", !.order_id = order_id,
                                     !.guest_id = caller_id], "GuestForbidden")
         /\ ops' = ops + 1
         /\ UNCHANGED <<nextOrderId, aside>>
    ELSE CancelOrderBegin(t, order_id, caller_id)

\* order.findFirst where order_id and user_id: the row found, if any.
OrderOfAnyUser(order, user_id) == order.status # "None"
OrderOfUser(order, user_id) == order.status # "None" /\ order.user_id = user_id

\* order.findFirst by id and owner, the status test, orderItem.findMany.
CancelOrderRead(t) ==
  /\ tx[t].op = "cancelOrder" /\ tx[t].pc = "read"
  /\ LET r == tx[t]
         order == orders[r.order_id]
     IN IF ~OrderOfUser(order, r.user_id)
          THEN Abort(t, r, "OrderNotFound")
          ELSE IF ~Cancellable(order.status)
            THEN Abort(t, [r EXCEPT !.old_status = order.status], "InvalidTransition")
            ELSE \E items \in ItemSeqs(ItemsOf(r.order_id)) :
                   Step(t, [r EXCEPT !.old_status = order.status,
                                     !.items = items,
                                     !.i = IF Len(items) = 0 THEN 0 ELSE 1,
                                     !.pc = IF Len(items) = 0 THEN "update"
                                                              ELSE "restore"])
  /\ UNCHANGED <<nextOrderId, ops>>
  /\ UNCHANGED aside

\* One turn of a restore loop: the increment and its ledger row.
Restore(t, next) ==
  LET r == tx[t]
      item == r.items[r.i]
      p == item.product_id
      last == r.i = Len(r.items)
  IN /\ ~LockedByOther(t, ProductLock(p))
     /\ Step(t, [r EXCEPT
           !.wStock[p] = @ + item.quantity,
           !.locks = @ \cup {ProductLock(p)},
           !.wLedger = Append(@,
              StockRow(p, item.quantity, "cancellation", r.order_id)),
           !.i = IF last THEN 0 ELSE r.i + 1,
           !.pc = IF last THEN next ELSE "restore"])

CancelOrderRestore(t) ==
  /\ tx[t].op = "cancelOrder" /\ tx[t].pc = "restore"
  /\ Restore(t, "update")
  /\ UNCHANGED <<nextOrderId, ops>>
  /\ UNCHANGED aside

\* payment.updateMany to a status: refused by the table's check when a row matches.
PaymentUpdateRefused(r, status) ==
  PaymentsOf(r, r.order_id) # {} /\ ~PaymentStatusCheck(status)

\* order.update to Cancelled, the history row, payment.updateMany, the commit.
CancelOrderUpdate(t) ==
  /\ tx[t].op = "cancelOrder" /\ tx[t].pc = "update"
  /\ ~LockedByOther(t, OrderLock(tx[t].order_id))
  /\ LET r == tx[t]
         w == [r EXCEPT
                 !.locks = @ \cup {OrderLock(r.order_id)},
                 !.wOrders = {<<r.order_id,
                                [orders[r.order_id] EXCEPT !.status = "Cancelled"]>>},
                 !.wHistory = Append(@, [order_id |-> r.order_id,
                                         old_status |-> r.old_status,
                                         new_status |-> "Cancelled",
                                         changed_at |-> Now(r)]),
                 !.wPaymentStatus = {<<r.order_id, "Cancelled">>}]
     IN IF PaymentUpdateRefused(r, "Cancelled")
          THEN Abort(t, w, "ConstraintViolation")
          ELSE Commit(t, w)
  /\ UNCHANGED <<nextOrderId, ops>>
  /\ UNCHANGED aside

\* The order row after order.update with updateData: the status, and
\* delivered_at when the target is Delivered.
UpdateDataAlwaysDelivered(order, new_status) ==
  [order EXCEPT !.status = new_status, !.delivered_at = TRUE]
UpdateDataStatusOnly(order, new_status) ==
  [order EXCEPT !.status = new_status]
UpdateData(order, new_status) ==
  IF new_status = "Delivered"
    THEN [order EXCEPT !.status = new_status, !.delivered_at = TRUE]
    ELSE [order EXCEPT !.status = new_status]

ChangeOrderStatusBegin(t, order_id, new_status) ==
  /\ Free(t)
  /\ LET r == [IdleTx EXCEPT !.op = "changeOrderStatus", !.order_id = order_id,
                             !.new_status = new_status]
     IN IF new_status \notin ValidStatuses
          THEN Reject(t, r, "InvalidStatus")
          ELSE Step(t, [r EXCEPT !.pc = "read", !.started = ops + 1])
  /\ ops' = ops + 1
  /\ UNCHANGED nextOrderId
  /\ UNCHANGED aside

\* order.findUnique and the test against the transitions table.
ChangeOrderStatusRead(t) ==
  /\ tx[t].op = "changeOrderStatus" /\ tx[t].pc = "read"
  /\ LET r == tx[t]
         order == orders[r.order_id]
     IN IF order.status = "None"
          THEN Abort(t, r, "OrderNotFound")
          ELSE IF r.new_status \notin Transitions(order.status)
            THEN Abort(t, [r EXCEPT !.old_status = order.status], "InvalidTransition")
            ELSE Step(t, [r EXCEPT !.old_status = order.status, !.pc = "update"])
  /\ UNCHANGED <<nextOrderId, ops>>
  /\ UNCHANGED aside

\* order.update, the history row, then by target: the payment completed and the
\* commit (Delivered), the commit (Shipped), or on to the restore loop (Cancelled).
ChangeOrderStatusUpdate(t) ==
  /\ tx[t].op = "changeOrderStatus" /\ tx[t].pc = "update"
  /\ ~LockedByOther(t, OrderLock(tx[t].order_id))
  /\ LET r == tx[t]
         row == UpdateData(orders[r.order_id], r.new_status)
         w == [r EXCEPT
                 !.locks = @ \cup {OrderLock(r.order_id)},
                 !.wOrders = {<<r.order_id, row>>},
                 !.wHistory = Append(@, [order_id |-> r.order_id,
                                         old_status |-> r.old_status,
                                         new_status |-> r.new_status,
                                         changed_at |-> Now(r)])]
     IN CASE r.new_status = "Delivered" ->
               IF PaymentUpdateRefused(r, "Completed")
                 THEN Abort(t, w, "ConstraintViolation")
                 ELSE Commit(t, [w EXCEPT
                        !.wPaymentStatus = {<<r.order_id, "Completed">>}])
          [] r.new_status = "Cancelled" ->
               \E items \in ItemSeqs(ItemsOf(r.order_id)) :
                 Step(t, [w EXCEPT !.items = items,
                                   !.i = IF Len(items) = 0 THEN 0 ELSE 1,
                                   !.pc = IF Len(items) = 0 THEN "payment"
                                                            ELSE "restore"])
          [] OTHER -> Commit(t, w)
  /\ UNCHANGED <<nextOrderId, ops>>
  /\ UNCHANGED aside

ChangeOrderStatusRestore(t) ==
  /\ tx[t].op = "changeOrderStatus" /\ tx[t].pc = "restore"
  /\ Restore(t, "payment")
  /\ UNCHANGED <<nextOrderId, ops>>
  /\ UNCHANGED aside

\* The cancellation branch's payment.updateMany, and the commit.
ChangeOrderStatusPayment(t) ==
  /\ tx[t].op = "changeOrderStatus" /\ tx[t].pc = "payment"
  /\ LET r == tx[t]
     IN IF PaymentUpdateRefused(r, "Cancelled")
          THEN Abort(t, r, "ConstraintViolation")
          ELSE Commit(t, [r EXCEPT !.wPaymentStatus = {<<r.order_id, "Cancelled">>}])
  /\ UNCHANGED <<nextOrderId, ops>>
  /\ UNCHANGED aside

\* The row t's next UPDATE needs.
WaitsFor(t) ==
  LET r == tx[t]
  IN CASE r.op = "placeOrder" /\ r.pc = "items" ->
            {ProductLock(r.validatedItems[r.i].product_id)}
       [] r.op \in {"cancelOrder", "changeOrderStatus"} /\ r.pc = "restore" ->
            {ProductLock(r.items[r.i].product_id)}
       [] r.op \in {"cancelOrder", "changeOrderStatus"} /\ r.pc = "update" ->
            {OrderLock(r.order_id)}
       [] r.op = "adjustStock" /\ r.pc = "write" -> {ProductLock(r.product_id)}
       [] OTHER -> {}

\* The database ends a cycle of lock waits by failing one of its transactions.
DeadlockAbort(t) ==
  /\ \E u \in Txs \ {t} :
       /\ \E row \in WaitsFor(t) : row \in tx[u].locks
       /\ \E row \in WaitsFor(u) : row \in tx[t].locks
  /\ Abort(t, tx[t], "Deadlock")
  /\ UNCHANGED <<nextOrderId, ops>>
  /\ UNCHANGED aside

\* -------------------------------------------------------------- products
RowLocked(row) == \E u \in Txs : row \in tx[u].locks

\* The reasons an admin adjustment may carry.
AdminReasons == {"admin_add", "admin_remove"}

\* The stock an adjustment writes: computed from the stock it read.
NewStockSubtracted(currentStock, change) == currentStock - change
NewStock(currentStock, change) == currentStock + change

\* What an adjustment returns once its transaction has committed.
AdjustStockReturn(r) ==
  [product_id |-> r.product_id, previous_stock |-> r.currentStock,
   quantity_change |-> r.quantity_change,
   new_stock |-> NewStock(r.currentStock, r.quantity_change)]

\* The reason test, the product read and the test of the new stock.
AdjustStockBegin(t, product_id, quantity_change, reason) ==
  /\ Free(t)
  /\ product[product_id].stock_quantity + quantity_change <= MaxStock
  /\ LET r == [IdleTx EXCEPT !.op = "adjustStock", !.product_id = product_id,
                             !.quantity_change = quantity_change,
                             !.reason = reason]
         p == product[product_id]
     IN IF reason \notin AdminReasons
          THEN Reject(t, r, "InvalidReason")
          ELSE IF ~(p.exists /\ p.is_active)
            THEN Reject(t, r, "ProductNotFound")
            ELSE IF NewStock(p.stock_quantity, quantity_change) < 0
              THEN Reject(t, [r EXCEPT !.currentStock = p.stock_quantity],
                          "InsufficientStock")
              ELSE Step(t, [r EXCEPT !.currentStock = p.stock_quantity,
                                     !.pc = "write"])
  /\ ops' = ops + 1
  /\ UNCHANGED nextOrderId
  /\ UNCHANGED aside

\* The transaction of an adjustment: the new stock written, the ledger row.
AdjustStockWrite(t) ==
  /\ tx[t].op = "adjustStock" /\ tx[t].pc = "write"
  /\ ~LockedByOther(t, ProductLock(tx[t].product_id))
  /\ LET r == tx[t]
         newStock == NewStock(r.currentStock, r.quantity_change)
     IN IF ~StockCheck(newStock)
          THEN Abort(t, r, "ConstraintViolation")
          ELSE /\ product' = [product EXCEPT
                    ![r.product_id].stock_quantity = newStock]
               /\ ledger' = Append(ledger,
                    StockRow(r.product_id, r.quantity_change, r.reason, Null))
               /\ tx' = [tx EXCEPT ![t] = Finished(r, "ok")]
               /\ UNCHANGED <<orders, orderItems, payments, history, cartItems>>
  /\ UNCHANGED <<nextOrderId, ops>>
  /\ UNCHANGED aside

\* The id the products identity column gives the next row.
NextProductId == CHOOSE p \in Products :
  ~product[p].exists /\ \A q \in Products : q < p => product[q].exists

\* The sale type and category tests, then product.create (committed at once).
CreateProductBegin(t, price, cost_price, sale_type, stock_quantity, category_id) ==
  /\ Free(t)
  /\ \E p \in Products : ~product[p].exists
  /\ LET r == [IdleTx EXCEPT !.op = "createProduct", !.price = price,
                             !.cost_price = cost_price,
                             !.quantity_change = stock_quantity]
     IN IF sale_type \notin SaleTypes
          THEN Reject(t, r, "InvalidSaleType")
          ELSE IF category_id \notin Categories
            THEN Reject(t, r, "CategoryNotFound")
            ELSE /\ product' = [product EXCEPT ![NextProductId] =
                      [exists |-> TRUE, is_active |-> TRUE, price |-> price,
                       cost_price |-> cost_price,
                       stock_quantity |-> stock_quantity]]
                 /\ tx' = [tx EXCEPT ![t] =
                      IF stock_quantity > 0
                        THEN [r EXCEPT !.product_id = NextProductId, !.pc = "log"]
                        ELSE Finished([r EXCEPT !.product_id = NextProductId], "ok")]
                 /\ UNCHANGED <<ledger, orders, orderItems, payments, history,
                                cartItems>>
  /\ ops' = ops + 1
  /\ UNCHANGED nextOrderId
  /\ UNCHANGED aside

\* The initial stock's ledger row, a statement of its own.
CreateProductLog(t) ==
  /\ tx[t].op = "createProduct" /\ tx[t].pc = "log"
  /\ ledger' = Append(ledger,
       StockRow(tx[t].product_id, tx[t].quantity_change, "admin_add", Null))
  /\ tx' = [tx EXCEPT ![t] = Finished(tx[t], "ok")]
  /\ UNCHANGED <<product, orders, orderItems, payments, history, cartItems,
                 nextOrderId, ops>>
  /\ UNCHANGED aside

\* The rows of order_items an update of a product rewrites: none.
RepricedItems(product_id, price, cost_price) ==
  {[it EXCEPT !.price_at_purchase =
                 IF it.product_id = product_id /\ price # Undefined
                   THEN price ELSE @] : it \in orderItems}
UpdatedItems(product_id, price, cost_price) == orderItems

\* product.update with the fields the request gives.
UpdateProduct(product_id, price, cost_price) ==
  /\ ~RowLocked(ProductLock(product_id))
  /\ IF ~product[product_id].exists
       THEN UNCHANGED db
       ELSE /\ product' = [product EXCEPT
                 ![product_id].price = IF price # Undefined THEN price ELSE @,
                 ![product_id].cost_price =
                    IF cost_price # Undefined THEN cost_price ELSE @]
            /\ orderItems' = UpdatedItems(product_id, price, cost_price)
            /\ UNCHANGED <<ledger, orders, payments, history, cartItems>>
  /\ ops' = ops + 1
  /\ UNCHANGED <<nextOrderId, tx>>
  /\ UNCHANGED aside

\* The soft delete: is_active cleared where it was set.
DeleteProduct(product_id) ==
  /\ IF product[product_id].exists /\ product[product_id].is_active
       THEN /\ ~RowLocked(ProductLock(product_id))
            /\ product' = [product EXCEPT ![product_id].is_active = FALSE]
       ELSE UNCHANGED product
  /\ ops' = ops + 1
  /\ UNCHANGED <<ledger, orders, orderItems, payments, history, cartItems,
                 nextOrderId, tx>>
  /\ UNCHANGED aside

\* ------------------------------------------------------------------ cart
AddToCart(user_id, product_id, quantity) ==
  /\ LET p == product[product_id]
         newQty == cartItems[user_id][product_id] + quantity
     IN IF ~(p.exists /\ p.is_active) \/ quantity <= 0 \/ newQty > p.stock_quantity
          THEN UNCHANGED cartItems
          ELSE cartItems' = [cartItems EXCEPT ![user_id][product_id] = newQty]
  /\ ops' = ops + 1
  /\ UNCHANGED <<product, ledger, orders, orderItems, payments, history,
                 nextOrderId, tx>>
  /\ UNCHANGED aside

\* --------------------------------------------------------------- reviews
NoReview == [exists |-> FALSE, user_id |-> Null, product_id |-> Null,
             rating |-> 0, is_hidden |-> FALSE, is_approved |-> FALSE]
NoStats == [average_rating |-> 0, reviews_count |-> 0]

IdleReq ==
  [op |-> "none", pc |-> "idle", result |-> "none", user_id |-> Null,
   product_id |-> Null, review_id |-> Null, rating |-> 0, is_hidden |-> FALSE,
   average_rating |-> 0, reviews_count |-> 0]

ReviewFree(t) == rtx[t].pc \in {"idle", "done"}

\* What a finished review request leaves behind: its inputs and its result.
ReviewFinished(r, result) ==
  [IdleReq EXCEPT !.op = r.op, !.pc = "done", !.result = result,
                  !.user_id = r.user_id, !.product_id = r.product_id,
                  !.review_id = r.review_id]

\* rating_check on product_reviews, and the service's test before it.
RatingCheck(rating) == rating >= 1 /\ rating <= 5

\* The rows the aggregate counts: the product's, approved and not hidden.
Counted(p) ==
  {id \in ReviewIds : /\ reviews[id].exists /\ reviews[id].product_id = p
                      /\ ~reviews[id].is_hidden /\ reviews[id].is_approved}

RECURSIVE SumRatings(_)
SumRatings(S) ==
  IF S = {} THEN 0
  ELSE LET id == CHOOSE x \in S : TRUE
       IN reviews[id].rating + SumRatings(S \ {id})

\* _avg.rating || 0 and _count.review_id over the counted rows.
Aggregate(p) ==
  [average_rating |-> IF Counted(p) = {} THEN 0
                      ELSE SumRatings(Counted(p)) \div Cardinality(Counted(p)),
   reviews_count |-> Cardinality(Counted(p))]

\* recalculateProductStats, first statement: productReview.aggregate.
RecalculateRead(t) ==
  /\ rtx[t].pc = "aggregate"
  /\ rtx' = [rtx EXCEPT ![t] =
       [@ EXCEPT !.average_rating = Aggregate(rtx[t].product_id).average_rating,
                 !.reviews_count = Aggregate(rtx[t].product_id).reviews_count,
                 !.pc = "stats"]]
  /\ UNCHANGED <<reviews, stats, nextReviewId, rops, shop, categoryVars>>

\* recalculateProductStats, second statement: product.update with what was read.
RecalculateWrite(t) ==
  /\ rtx[t].pc = "stats"
  /\ stats' = [stats EXCEPT ![rtx[t].product_id] =
       [average_rating |-> rtx[t].average_rating,
        reviews_count |-> rtx[t].reviews_count]]
  /\ rtx' = [rtx EXCEPT ![t] = ReviewFinished(rtx[t], "ok")]
  /\ UNCHANGED <<reviews, nextReviewId, rops, shop, categoryVars>>

ReviewReject(t, r, error) ==
  /\ rtx' = [rtx EXCEPT ![t] = ReviewFinished(r, error)]
  /\ UNCHANGED <<reviews, stats, nextReviewId>>

ReviewStep(t, r) ==
  /\ rtx' = [rtx EXCEPT ![t] = r]
  /\ UNCHANGED <<reviews, stats, nextReviewId>>

ReviewOf(user_id, product_id) ==
  {id \in ReviewIds : /\ reviews[id].exists /\ reviews[id].user_id = user_id
                      /\ reviews[id].product_id = product_id}

PendingReviews ==
  Cardinality({u \in Txs : rtx[u].op = "createReview" /\ rtx[u].pc = "create"})

\* createReview: the rating test, the product read, the lookup of an earlier
\* review of the user.
CreateReviewBegin(t, user_id, product_id, rating) ==
  /\ ReviewFree(t)
  /\ nextReviewId + PendingReviews <= MaxReviews
  /\ LET r == [IdleReq EXCEPT !.op = "createReview", !.user_id = user_id,
                              !.product_id = product_id, !.rating = rating]
     IN IF ~RatingCheck(rating)
          THEN ReviewReject(t, r, "InvalidRating")
          ELSE IF ~(product[product_id].exists /\ product[product_id].is_active)
            THEN ReviewReject(t, r, "ProductNotFound")
            ELSE IF ReviewOf(user_id, product_id) # {}
              THEN ReviewReject(t, r, "AlreadyReviewed")
              ELSE ReviewStep(t, [r EXCEPT !.pc = "create"])
  /\ rops' = rops + 1
  /\ UNCHANGED <<shop, categoryVars>>

\* productReview.create, under unique_user_product_review.
CreateReviewCreate(t) ==
  /\ rtx[t].op = "createReview" /\ rtx[t].pc = "create"
  /\ LET r == rtx[t]
     IN IF ReviewOf(r.user_id, r.product_id) # {}
          THEN /\ rtx' = [rtx EXCEPT ![t] = ReviewFinished(r, "ConstraintViolation")]
               /\ UNCHANGED reviews
          ELSE /\ reviews' = [reviews EXCEPT ![nextReviewId] =
                    [exists |-> TRUE, user_id |-> r.user_id,
                     product_id |-> r.product_id, rating |-> r.rating,
                     is_hidden |-> FALSE, is_approved |-> TRUE]]
               /\ rtx' = [rtx EXCEPT ![t] =
                    [r EXCEPT !.review_id = nextReviewId, !.pc = "aggregate"]]
  /\ nextReviewId' = nextReviewId + 1
  /\ UNCHANGED <<stats, rops, shop, categoryVars>>

\* updateReview: the rating test, the review read and the ownership test.
UpdateReviewBegin(t, review_id, user_id, rating) ==
  /\ ReviewFree(t)
  /\ LET r == [IdleReq EXCEPT !.op = "updateReview", !.user_id = user_id,
                              !.review_id = review_id, !.rating = rating]
         review == reviews[review_id]
     IN IF rating # Undefined /\ ~RatingCheck(rating)
          THEN ReviewReject(t, r, "InvalidRating")
          ELSE IF ~review.exists
            THEN ReviewReject(t, r, "ReviewNotFound")
            ELSE IF review.user_id # user_id
              THEN ReviewReject(t, r, "NotOwner")
              ELSE ReviewStep(t, [r EXCEPT !.product_id = review.product_id,
                                           !.pc = "write"])
  /\ rops' = rops + 1
  /\ UNCHANGED <<shop, categoryVars>>

\* deleteReview: the review read and the ownership test.
DeleteReviewBegin(t, review_id, user_id) ==
  /\ ReviewFree(t)
  /\ LET r == [IdleReq EXCEPT !.op = "deleteReview", !.user_id = user_id,
                              !.review_id = review_id]
         review == reviews[review_id]
     IN IF ~review.exists
          THEN ReviewReject(t, r, "ReviewNotFound")
          ELSE IF review.user_id # user_id
            THEN ReviewReject(t, r, "NotOwner")
            ELSE ReviewStep(t, [r EXCEPT !.product_id = review.product_id,
                                         !.pc = "write"])
  /\ rops' = rops + 1
  /\ UNCHANGED <<shop, categoryVars>>

\* toggleReviewVisibility: the review read; newVisibility from is_hidden as read.
ToggleReviewVisibilityBegin(t, review_id) ==
  /\ ReviewFree(t)
  /\ LET r == [IdleReq EXCEPT !.op = "toggleReviewVisibility",
                              !.review_id = review_id]
         review == reviews[review_id]
     IN IF ~review.exists
          THEN ReviewReject(t, r, "ReviewNotFound")
          ELSE ReviewStep(t, [r EXCEPT !.product_id = review.product_id,
                                       !.is_hidden = ~review.is_hidden,
                                       !.pc = "write"])
  /\ rops' = rops + 1
  /\ UNCHANGED <<shop, categoryVars>>

\* The row a request's write statement leaves of the review.
Written(r, review) ==
  CASE r.op = "updateReview" ->
         [review EXCEPT !.rating = IF r.rating # Undefined THEN r.rating ELSE @]
    [] r.op = "deleteReview" -> NoReview
    [] OTHER -> [review EXCEPT !.is_hidden = r.is_hidden]

\* productReview.update or delete by review_id: an error when the row is gone.
ReviewWrite(t) ==
  /\ rtx[t].op \in {"updateReview", "deleteReview", "toggleReviewVisibility"}
  /\ rtx[t].pc = "write"
  /\ LET r == rtx[t]
     IN IF ~reviews[r.review_id].exists
          THEN /\ rtx' = [rtx EXCEPT ![t] = ReviewFinished(r, "RecordNotFound")]
               /\ UNCHANGED reviews
          ELSE /\ reviews' = [reviews EXCEPT ![r.review_id] = Written(r, @)]
               /\ rtx' = [rtx EXCEPT ![t] = [r EXCEPT !.pc = "aggregate"]]
  /\ UNCHANGED <<stats, nextReviewId, rops, shop, categoryVars>>

\* ------------------------------------------------------------ categories
NoCategory == [exists |-> FALSE, parent_id |-> Null]
RootCategory == [exists |-> TRUE, parent_id |-> Null]

IdleCategoryReq ==
  [op |-> "none", pc |-> "idle", result |-> "none",
   category_id |-> Null, parent_id |-> Null]

CategoryFree(t) == ctx[t].pc \in {"idle", "done"}

CategoryFinished(r, result) == [r EXCEPT !.pc = "done", !.result = result]

CategoryExists(c) == c \in CategoryIds /\ category[c].exists

\* The recursive query of checkIfDescendant: the category ancestor_id and all
\* that hang below it.
RECURSIVE CategoryTree(_)
CategoryTree(S) ==
  LET next == S \cup {c \in CategoryIds :
                        category[c].exists /\ category[c].parent_id \in S}
  IN IF next = S THEN S ELSE CategoryTree(next)

CheckIfDescendant(ancestor_id, descendant_id) ==
  descendant_id \in CategoryTree({c \in {ancestor_id} : CategoryExists(c)})

\* The id the categories identity column gives the next row.
NextCategoryId == CHOOSE c \in CategoryIds :
  ~category[c].exists /\ \A d \in CategoryIds : d < c => category[d].exists

\* createCategory: the parent lookup when a parent is named.
CreateCategoryBegin(t, parent_id) ==
  /\ CategoryFree(t)
  /\ \E c \in CategoryIds : ~category[c].exists
  /\ LET r == [IdleCategoryReq EXCEPT !.op = "createCategory",
                                      !.parent_id = parent_id]
     IN ctx' = [ctx EXCEPT ![t] =
          IF parent_id # Null /\ ~CategoryExists(parent_id)
            THEN CategoryFinished(r, "ParentNotFound")
            ELSE [r EXCEPT !.pc = "create"]]
  /\ cops' = cops + 1
  /\ UNCHANGED <<category, shop, reviewVars>>

\* category.create, under the foreign key on parent_id.
CreateCategoryCreate(t) ==
  /\ ctx[t].op = "createCategory" /\ ctx[t].pc = "create"
  /\ LET r == ctx[t]
     IN IF (r.parent_id # Null /\ ~CategoryExists(r.parent_id))
           \/ ~(\E c \in CategoryIds : ~category[c].exists)
          THEN /\ ctx' = [ctx EXCEPT ![t] = CategoryFinished(r, "ConstraintViolation")]
               /\ UNCHANGED category
          ELSE /\ category' = [category EXCEPT ![NextCategoryId] =
                    [exists |-> TRUE, parent_id |-> r.parent_id]]
               /\ ctx' = [ctx EXCEPT ![t] =
                    CategoryFinished([r EXCEPT !.category_id = NextCategoryId], "ok")]
  /\ UNCHANGED <<cops, shop, reviewVars>>

\* updateCategory: the category lookup and the self-parent test.
UpdateCategoryBegin(t, category_id, parent_id) ==
  /\ CategoryFree(t)
  /\ LET r == [IdleCategoryReq EXCEPT !.op = "updateCategory",
                                      !.category_id = category_id,
                                      !.parent_id = parent_id]
     IN ctx' = [ctx EXCEPT ![t] =
          IF ~CategoryExists(category_id)
            THEN CategoryFinished(r, "CategoryNotFound")
            ELSE IF parent_id # Undefined /\ parent_id = category_id
              THEN CategoryFinished(r, "OwnParent")
              ELSE IF parent_id \in {Undefined, Null}
                THEN [r EXCEPT !.pc = "write"]
                ELSE [r EXCEPT !.pc = "check"]]
  /\ cops' = cops + 1
  /\ UNCHANGED <<category, shop, reviewVars>>

\* updateCategory: the descendant query and the parent lookup.
UpdateCategoryCheck(t) ==
  /\ ctx[t].op = "updateCategory" /\ ctx[t].pc = "check"
  /\ LET r == ctx[t]
     IN ctx' = [ctx EXCEPT ![t] =
          IF CheckIfDescendant(r.category_id, r.parent_id)
            THEN CategoryFinished(r, "DescendantAsParent")
            ELSE IF ~CategoryExists(r.parent_id)
              THEN CategoryFinished(r, "ParentNotFound")
              ELSE [r EXCEPT !.pc = "write"]]
  /\ UNCHANGED <<category, cops, shop, reviewVars>>

\* category.update with the payload: parent_id when the request gives one.
UpdateCategoryWrite(t) ==
  /\ ctx[t].op = "updateCategory" /\ ctx[t].pc = "write"
  /\ LET r == ctx[t]
     IN IF ~CategoryExists(r.category_id)
           \/ (r.parent_id \notin {Undefined, Null} /\ ~CategoryExists(r.parent_id))
          THEN /\ ctx' = [ctx EXCEPT ![t] = CategoryFinished(r, "ConstraintViolation")]
               /\ UNCHANGED category
          ELSE /\ category' = [category EXCEPT ![r.category_id].parent_id =
                    IF r.parent_id # Undefined THEN r.parent_id ELSE @]
               /\ ctx' = [ctx EXCEPT ![t] = CategoryFinished(r, "ok")]
  /\ UNCHANGED <<cops, shop, reviewVars>>

\* ------------------------------------------------------------- read paths
Perms(n) == {f \in [1..n -> 1..n] : \A a \in 1..n : \E k \in 1..n : f[k] = a}

\* orderStatusHistory.findMany of an order, orderBy changed_at asc.
GetOrderStatusHistory(o) ==
  LET h == SelectSeq(history, LAMBDA row : row.order_id = o)
      n == Len(h)
      f == CHOOSE g \in Perms(n) :
             \A k \in 1..(n - 1) : h[g[k]].changed_at <= h[g[k + 1]].changed_at
  IN [k \in 1..n |-> h[f[k]]]

\* --------------------------------------------------------- specification
SeedProduct == [exists |-> TRUE, is_active |-> TRUE, price |-> 5,
                cost_price |-> 3, stock_quantity |-> InitialStock]

\* The catalogue holds product 1, and product 2 or not yet.
Init ==
  /\ \E seeded \in {{1}, Products} :
       /\ product = [p \in Products |->
            IF p = 1 THEN SeedProduct
            ELSE IF p \in seeded THEN [SeedProduct EXCEPT !.stock_quantity = 1]
            ELSE NoProduct]
       /\ ledger = IF 2 \in seeded
            THEN << StockRow(1, InitialStock, "admin_add", Null),
                    StockRow(2, 1, "admin_add", Null) >>
            ELSE << StockRow(1, InitialStock, "admin_add", Null) >>
  /\ orders = [o \in OrderIds |-> NoOrder]
  /\ orderItems = {}
  /\ payments = << >>
  /\ history = << >>
  /\ cartItems = [u \in Users |-> NoCart]
  /\ nextOrderId = 1
  /\ tx = [t \in Txs |-> IdleTx]
  /\ ops = 0
  /\ reviews = [id \in ReviewIds |-> NoReview]
  /\ stats = [p \in Products |-> NoStats]
  /\ nextReviewId = 1
  /\ rtx = [t \in Txs |-> IdleReq]
  /\ rops = 0
  /\ category = [c \in CategoryIds |-> IF c \in Categories THEN RootCategory
                                                             ELSE NoCategory]
  /\ ctx = [t \in Txs |-> IdleCategoryReq]
  /\ cops = 0

\* A new request takes the first free slot.
Slot(t) == Free(t) /\ \A u \in Txs : u < t => ~Free(u)

ItemSet == {Item(p, q) : p \in Products, q \in Quantities}
ItemLists == {<< >>} \cup {<<a>> : a \in ItemSet}
             \cup {<<a, b>> : a \in {c \in ItemSet : c.quantity = 1}, b \in ItemSet}

\* The owners a placement may name: a user, a guest, both, neither.
Owners == {<<1, Null>>, <<Null, 1>>}
BadOwners == {<<1, 1>>, <<Null, Null>>}

Requests(t) ==
  \/ \E o \in Owners, items \in ItemLists : PlaceOrderBegin(t, o[1], o[2], items)
  \/ \E o \in BadOwners : PlaceOrderBegin(t, o[1], o[2], <<Item(1, 1)>>)
  \/ \E o \in OrderIds, u \in Users : CancelOrderController(t, "Customer", o, u)
  \/ \E o \in OrderIds, g \in Guests : CancelOrderController(t, "Guest", o, g)
  \/ \E o \in OrderIds, s \in OrderStatuses : ChangeOrderStatusBegin(t, o, s)
  \/ \E p \in Products, c \in StockChanges, reason \in AdminReasons \cup {"purchase"} :
       AdjustStockBegin(t, p, c, reason)
  \/ \E s \in NewStocks, st \in {"piece", "box"}, c \in {1, 2} :
       CreateProductBegin(t, 5, 3, st, s, c)

Steps(t) ==
  \/ PlaceOrderValidate(t)
  \/ PlaceOrderItem(t)
  \/ CancelOrderRead(t)
  \/ CancelOrderRestore(t)
  \/ CancelOrderUpdate(t)
  \/ ChangeOrderStatusRead(t)
  \/ ChangeOrderStatusUpdate(t)
  \/ ChangeOrderStatusRestore(t)
  \/ ChangeOrderStatusPayment(t)
  \/ AdjustStockWrite(t)
  \/ CreateProductLog(t)
  \/ DeadlockAbort(t)

Next ==
  \/ \E t \in Txs : Slot(t) /\ ops < MaxOps /\ Requests(t)
  \/ \E t \in Txs : Steps(t)
  \/ /\ ops < MaxOps
     /\ \/ \E p \in Products, price \in Prices, cost \in Costs :
             UpdateProduct(p, price, cost)
        \/ \E p \in Products : DeleteProduct(p)
        \/ \E u \in Users, p \in Products, q \in Quantities : AddToCart(u, p, q)

Spec == Init /\ [][Next]_vars

\* The life of orders of one unit of product 1: placed by user 1, then cancelled
\* by a user or moved by the admin, in any interleaving.
LifecycleRequests(t) ==
  \/ PlaceOrderBegin(t, 1, Null, <<Item(1, 1)>>)
  \/ \E o \in OrderIds, u \in Users : CancelOrderController(t, "Customer", o, u)
  \/ \E o \in OrderIds, g \in Guests : CancelOrderController(t, "Guest", o, g)
  \/ \E o \in OrderIds, s \in OrderStatuses : ChangeOrderStatusBegin(t, o, s)

LifecycleSteps(t) ==
  \/ PlaceOrderValidate(t)
  \/ PlaceOrderItem(t)
  \/ CancelOrderRead(t)
  \/ CancelOrderRestore(t)
  \/ CancelOrderUpdate(t)
  \/ ChangeOrderStatusRead(t)
  \/ ChangeOrderStatusUpdate(t)
  \/ ChangeOrderStatusRestore(t)
  \/ ChangeOrderStatusPayment(t)
  \/ DeadlockAbort(t)

NextLifecycle ==
  \/ \E t \in Txs : Slot(t) /\ ops < MaxLifecycleOps /\ LifecycleRequests(t)
  \/ \E t \in Txs : LifecycleSteps(t)

SpecLifecycle == Init /\ [][NextLifecycle]_vars

\* Reviews of the products by the users, hidden and shown again by the admin.
ReviewRequests(t) ==
  \/ \E u \in Users, p \in Products, rating \in Ratings :
       CreateReviewBegin(t, u, p, rating)
  \/ \E id \in ReviewIds, u \in Users, rating \in {Undefined, 2, 6} :
       UpdateReviewBegin(t, id, u, rating)
  \/ \E id \in ReviewIds, u \in Users : DeleteReviewBegin(t, id, u)
  \/ \E id \in ReviewIds : ToggleReviewVisibilityBegin(t, id)

ReviewSteps(t) ==
  \/ CreateReviewCreate(t)
  \/ ReviewWrite(t)
  \/ RecalculateRead(t)
  \/ RecalculateWrite(t)

ReviewSlot(t) == ReviewFree(t) /\ \A u \in Txs : u < t => ~ReviewFree(u)

NextReviews ==
  \/ \E t \in Txs : ReviewSlot(t) /\ rops < MaxReviewOps /\ ReviewRequests(t)
  \/ \E t \in Txs : ReviewSteps(t)

SpecReviews == Init /\ [][NextReviews]_vars


\* The category tree as the admin builds and rearranges it.
CategoryRequests(t) ==
  \/ \E parent \in CategoryIds \cup {Null} : CreateCategoryBegin(t, parent)
  \/ \E c \in CategoryIds, parent \in CategoryIds \cup {Null, Undefined} :
       UpdateCategoryBegin(t, c, parent)

CategorySteps(t) ==
  \/ CreateCategoryCreate(t)
  \/ UpdateCategoryCheck(t)
  \/ UpdateCategoryWrite(t)

CategorySlot(t) == CategoryFree(t) /\ \A u \in Txs : u < t => ~CategoryFree(u)

NextCategories ==
  \/ \E t \in Txs : CategorySlot(t) /\ cops < MaxCategoryOps /\ CategoryRequests(t)
  \/ \E t \in Txs : CategorySteps(t)

SpecCategories == Init /\ [][NextCategories]_vars

\* ---------------------------------------------------------------- claims
RECURSIVE SumChanges(_, _)
SumChanges(rows, p) ==
  IF rows = << >> THEN 0
  ELSE (IF Head(rows).product_id = p THEN Head(rows).quantity_change ELSE 0)
       + SumChanges(Tail(rows), p)

RECURSIVE SumSubtotals(_)
SumSubtotals(v) ==
  IF v = << >> THEN 0
  ELSE Head(v).quantity * Head(v).price + SumSubtotals(Tail(v))

Quiescent == \A t \in Txs : Free(t)
Ran(t) == tx'[t] # tx[t]
Placed(t) == tx[t].op = "placeOrder" /\ tx[t].pc = "done"

\* C1: for every product, stock_quantity equals the sum of the quantity_change
\* of its stock_transactions rows. Stated for the committed states in which no
\* request is in flight, which are among the states the claim covers.
C1_StockEqualsLedgerSum ==
  Quiescent =>
    \A p \in Products :
      product[p].exists => product[p].stock_quantity = SumChanges(ledger, p)

\* C2: two placements of one unit each against a product whose stock is 1, and
\* nothing else: once both have ended, exactly one has committed, the other has
\* failed with the insufficient-stock error, the stock is 0 and the product has
\* one purchase row.
C2_OneWinsOtherInsufficient ==
  \A p \in Products :
    ( /\ ops = 2
      /\ \A t \in Txs : Placed(t) /\ tx[t].items = <<Item(p, 1)>>
      /\ \E k \in 1..Len(ledger) : ledger[k] = StockRow(p, 1, "admin_add", Null) )
    => /\ \E t \in Txs : /\ tx[t].result = "ok"
                         /\ \A u \in Txs \ {t} : tx[u].result = "InsufficientStock"
       /\ product[p].stock_quantity = 0
       /\ Cardinality({k \in 1..Len(ledger) :
            ledger[k].product_id = p /\ ledger[k].reason = "purchase"}) = 1

\* C3: no committed state holds a product with a negative stock_quantity.
C3_StockNeverNegative ==
  \A p \in Products : product[p].stock_quantity >= 0

\* C3 witness: a placement that passed its stock test was stopped at its
\* decrement, and the stock stands at 0.
C3_Witness ==
  \E t \in Txs : /\ Placed(t) /\ tx[t].result = "ConstraintViolation"
                 /\ Len(tx[t].items) = 1
                 /\ product[tx[t].items[1].product_id].stock_quantity = 0

\* C4: when the validation of a placement reads an available product whose
\* stock is below the item's quantity, the placement ends there with the
\* insufficient-stock error and no row of any table changes.
C4_InsufficientStockAborts ==
  [][\A t \in Txs :
       ( /\ tx[t].op = "placeOrder" /\ tx[t].pc = "validate" /\ Ran(t)
         /\ LET item == tx[t].items[tx[t].i]
                p == product[item.product_id]
            IN p.exists /\ p.is_active /\ item.quantity > p.stock_quantity )
       => /\ tx'[t].pc = "done" /\ tx'[t].result = "InsufficientStock"
          /\ UNCHANGED db /\ UNCHANGED nextOrderId]_vars

\* C4 witness: a two-item placement refused for its second item, the first
\* still orderable, and no order, no ledger row beyond the seeds.
C4_Witness ==
  \E t \in Txs : /\ Placed(t) /\ tx[t].result = "InsufficientStock"
                 /\ tx[t].items = <<Item(1, 1), Item(2, 2)>>
                 /\ product[1].is_active /\ product[1].stock_quantity >= 1
                 /\ product[2].is_active /\ product[2].stock_quantity = 1
                 /\ \A o \in OrderIds : orders[o] = NoOrder
                 /\ Len(ledger) = 2

HistoryOf(o) == {k \in 1..Len(history) : history[k].order_id = o}
PurchaseRows(o, p) ==
  {k \in 1..Len(ledger) : /\ ledger[k].related_order_id = o
                          /\ ledger[k].product_id = p
                          /\ ledger[k].reason = "purchase"}

\* C5: every committed order has at least one item, exactly one payment, a first
\* history row (none -> Created) and, per item, one purchase row of minus the
\* item's quantity; and no item, payment, history or purchase row belongs to an
\* order that is not there.
C5_PlacementAllOrNothing ==
  /\ \A o \in OrderIds : orders[o].status # "None" =>
       /\ ItemsOf(o) # {}
       /\ Cardinality(PaymentsOf(tx, o)) = 1
       /\ HistoryOf(o) # {}
       /\ LET first == CHOOSE k \in HistoryOf(o) : \A j \in HistoryOf(o) : k <= j
          IN history[first].old_status = "None" /\ history[first].new_status = "Created"
       /\ \A it \in ItemsOf(o) :
            /\ Cardinality(PurchaseRows(o, it.product_id)) = 1
            /\ \A k \in PurchaseRows(o, it.product_id) :
                 ledger[k].quantity_change = -it.quantity
  /\ \A it \in orderItems : orders[it.order_id].status # "None"
  /\ \A k \in 1..Len(payments) : orders[payments[k].order_id].status # "None"
  /\ \A k \in 1..Len(history) : orders[history[k].order_id].status # "None"
  /\ \A k \in 1..Len(ledger) :
       ledger[k].reason = "purchase" =>
         /\ ledger[k].related_order_id \in OrderIds
         /\ \E it \in ItemsOf(ledger[k].related_order_id) :
              it.product_id = ledger[k].product_id

\* C5 witness: a placement failed inside its write loop, after the header was
\* written under id 1, and the database holds no order and no row of one.
C5_Witness ==
  \E t \in Txs : /\ Placed(t) /\ tx[t].result = "ConstraintViolation"
                 /\ nextOrderId = 2 /\ orders[1] = NoOrder
                 /\ orderItems = {} /\ payments = << >> /\ history = << >>

CommitsPlacement(t) ==
  /\ tx[t].op = "placeOrder" /\ tx[t].pc = "items"
  /\ tx'[t].pc = "done" /\ tx'[t].result = "ok"

\* C6: a placement that commits adds an order in Created whose
\* total_products_price is the sum of quantity x price read at check time, with
\* shipping_fees 0, discount_amount 0 and final_total equal to it; lowers each
\* product's stock by the quantity ordered; adds one item row (the check-time
\* price and cost) and one purchase row of minus the quantity per item; and adds
\* one Pending payment of final_total.
C6_PlacementEffect ==
  [][\A t \in Txs : CommitsPlacement(t) =>
       LET r == tx[t]
           o == r.order_id
           v == r.validatedItems
           total == SumSubtotals(v)
       IN /\ orders[o] = NoOrder
          /\ orders'[o] = [user_id |-> r.user_id, guest_id |-> r.guest_id,
                           status |-> "Created", total_products_price |-> total,
                           shipping_fees |-> 0, discount_amount |-> 0,
                           final_total |-> total, delivered_at |-> FALSE]
          /\ \A o2 \in OrderIds \ {o} : orders'[o2] = orders[o2]
          /\ \A p \in Products :
               product'[p] = [product[p] EXCEPT
                                !.stock_quantity = @ - SumQuantity(v, p)]
          /\ orderItems' = orderItems \cup
               {[order_id |-> o, product_id |-> v[k].product_id,
                 quantity |-> r.items[k].quantity,
                 price_at_purchase |-> v[k].price,
                 cost_price_at_purchase |-> v[k].cost_price] : k \in 1..Len(v)}
          /\ Cardinality(orderItems') = Cardinality(orderItems) + Len(r.items)
          /\ ledger' = ledger \o
               [k \in 1..Len(v) |->
                  StockRow(r.items[k].product_id, -r.items[k].quantity,
                           "purchase", o)]
          /\ payments' = Append(payments,
               [order_id |-> o, payment_method |-> "cash_on_delivery",
                amount |-> total, status |-> "Pending"])]_vars

\* C6 witness: a two-item order committed; the price of one of its products has
\* changed since its check.
C6_Witness ==
  \E o \in OrderIds :
    /\ orders[o].status = "Created" /\ Cardinality(ItemsOf(o)) = 2
    /\ orders[o].total_products_price = 10
    /\ \E it \in ItemsOf(o) : product[it.product_id].price # it.price_at_purchase

\* C7: an order_items row, once inserted, stays as it is: its quantity,
\* price_at_purchase and cost_price_at_purchase never change and it is never removed.
C7_OrderItemsImmutable ==
  [][\A it \in orderItems : it \in orderItems'
       /\ Cardinality({x \in orderItems' : x.order_id = it.order_id
                                          /\ x.product_id = it.product_id}) = 1]_vars

\* C7 witness: an item whose product has since been repriced and re-costed keeps
\* its snapshot.
C7_Witness ==
  \E it \in orderItems :
    /\ product[it.product_id].price = 7 /\ it.price_at_purchase = 5
    /\ product[it.product_id].cost_price = 4 /\ it.cost_price_at_purchase = 3

\* The status changes the fulfilment state machine allows.
AllowedChanges ==
  {<<"Created", "Shipped">>, <<"Created", "Cancelled">>,
   <<"Shipped", "Delivered">>, <<"Shipped", "Cancelled">>}

\* C8: every change of the status of an order is one of Created->Shipped,
\* Created->Cancelled, Shipped->Delivered, Shipped->Cancelled.
C8_OnlyAllowedChanges ==
  [][\A o \in OrderIds :
       (orders[o].status # "None" /\ orders'[o].status # orders[o].status)
       => <<orders[o].status, orders'[o].status>> \in AllowedChanges]_vars

\* C9: a status change asked for with a target other than Shipped, Delivered or
\* Cancelled fails before storage is touched; one that reads its order as
\* Delivered or Cancelled, or as Created with the target Delivered, fails with
\* the invalid-transition error; in both cases no row of any table changes.
C9_RefusedChangeLeavesState ==
  [][\A t \in Txs :
       /\ ( /\ Free(t) /\ Ran(t) /\ tx'[t].op = "changeOrderStatus"
            /\ tx'[t].new_status \notin {"Shipped", "Delivered", "Cancelled"} )
          => /\ tx'[t].pc = "done" /\ tx'[t].result = "InvalidStatus"
             /\ UNCHANGED db
       /\ ( /\ tx[t].op = "changeOrderStatus" /\ tx[t].pc = "read" /\ Ran(t)
            /\ LET s == orders[tx[t].order_id].status
               IN \/ s \in {"Delivered", "Cancelled"}
                  \/ s = "Created" /\ tx[t].new_status = "Delivered" )
          => /\ tx'[t].pc = "done" /\ tx'[t].result = "InvalidTransition"
             /\ UNCHANGED db]_vars

\* C9 witness: a change refused on an order that is Delivered, which keeps its
\* Completed payment and its three history rows.
C9_Witness ==
  \E t \in Txs : /\ tx[t].op = "changeOrderStatus" /\ tx[t].pc = "done"
                 /\ tx[t].result = "InvalidTransition"
                 /\ orders[tx[t].order_id].status = "Delivered"
                 /\ \E k \in 1..Len(payments) :
                      /\ payments[k].order_id = tx[t].order_id
                      /\ payments[k].status = "Completed"
                 /\ Len(history) = 3

\* C10: a customer's cancellation that reads its own order as Shipped, Delivered
\* or Cancelled fails with the created-only error and no row of any table changes.
C10_LateCancelLeavesState ==
  [][\A t \in Txs :
       ( /\ tx[t].op = "cancelOrder" /\ tx[t].pc = "read" /\ Ran(t)
         /\ orders[tx[t].order_id].user_id = tx[t].user_id
         /\ orders[tx[t].order_id].status \in {"Shipped", "Delivered", "Cancelled"} )
       => /\ tx'[t].pc = "done" /\ tx'[t].result = "InvalidTransition"
          /\ UNCHANGED db]_vars

\* C10 witness: the owner's cancellation refused on a Shipped order, which still
\* has its Pending payment, its two history rows and its stock taken.
C10_Witness ==
  \E t \in Txs : /\ tx[t].op = "cancelOrder" /\ tx[t].pc = "done"
                 /\ tx[t].result = "InvalidTransition"
                 /\ orders[tx[t].order_id].status = "Shipped"
                 /\ orders[tx[t].order_id].user_id = tx[t].user_id
                 /\ \E k \in 1..Len(payments) :
                      /\ payments[k].order_id = tx[t].order_id
                      /\ payments[k].status = "Pending"
                 /\ Len(history) = 2
                 /\ product[1].stock_quantity = InitialStock - 1

CancellationRows(o, p) ==
  {k \in 1..Len(ledger) : /\ ledger[k].related_order_id = o
                          /\ ledger[k].product_id = p
                          /\ ledger[k].reason = "cancellation"}

\* The state a cancellation of order o leaves: the order Cancelled, its payment
\* Cancelled, per item the stock back at its seed and one cancellation row of
\* plus the quantity, and old -> Cancelled as the order's last history row, the
\* only one into Cancelled.
CancelledState(o, old) ==
  /\ orders[o].status = "Cancelled"
  /\ \A k \in PaymentsOf(tx, o) : payments[k].status = "Cancelled"
  /\ \A it \in ItemsOf(o) :
       /\ product[it.product_id].stock_quantity = SumChanges(ledger, it.product_id)
       /\ Cardinality(CancellationRows(o, it.product_id)) = 1
       /\ \A k \in CancellationRows(o, it.product_id) :
            ledger[k].quantity_change = it.quantity
  /\ product[1].stock_quantity = InitialStock
  /\ HistoryOf(o) # {}
  /\ LET last == CHOOSE k \in HistoryOf(o) : \A j \in HistoryOf(o) : j <= k
     IN history[last].old_status = old /\ history[last].new_status = "Cancelled"
  /\ Cardinality({k \in HistoryOf(o) : history[k].new_status = "Cancelled"}) = 1

\* C11: an order is placed and its owner then cancels it, nothing else: the
\* cancellation succeeds, the order and its payment are Cancelled, every item's
\* stock is back with one cancellation row of plus its quantity, and the
\* history gains the one row Created -> Cancelled.
C11_OwnerCancelEffect ==
  \A t \in Txs :
    ( /\ ops = 2
      /\ tx[t].op = "cancelOrder" /\ tx[t].pc = "done"
      /\ tx[t].user_id # Null
      /\ tx[t].user_id = orders[tx[t].order_id].user_id
      /\ tx[t].result # "OrderNotFound"
      /\ \E u \in Txs \ {t} : Placed(u) /\ tx[u].result = "ok" )
    => /\ tx[t].result = "ok"
       /\ CancelledState(tx[t].order_id, "Created")
       /\ Cardinality(HistoryOf(tx[t].order_id)) = 2

\* C12: the admin's cancellation ends where the owner's does. An order is placed
\* and the admin then sets it to Cancelled, nothing else; or it is placed, set to
\* Shipped and then to Cancelled: the change succeeds, the order and its payment
\* are Cancelled, every item's stock is back with one cancellation row, and the
\* history ends with the one row into Cancelled.
C12_AdminCancelEffect ==
  \A t \in Txs :
    ( /\ tx[t].op = "changeOrderStatus" /\ tx[t].new_status = "Cancelled"
      /\ tx[t].pc = "done" /\ tx[t].result # "OrderNotFound"
      /\ \E u \in Txs \ {t} :
           \/ ops = 2 /\ Placed(u) /\ tx[u].result = "ok"
           \/ /\ ops = 3 /\ tx[u].op = "changeOrderStatus" /\ tx[u].result = "ok"
              /\ tx[u].new_status = "Shipped" /\ tx[u].order_id = tx[t].order_id
              /\ orders[tx[t].order_id].status # "Shipped" )
    => /\ tx[t].result = "ok"
       /\ \E old \in {"Created", "Shipped"} : CancelledState(tx[t].order_id, old)

\* The history rows of order o, in the order they were committed.
HistoryRows(o) == SelectSeq(history, LAMBDA row : row.order_id = o)

\* C13: the history rows of every order form one chain: the first is
\* none -> Created, each later row's old_status is the new_status of the row
\* before it, and the last row's new_status is the order's status.
C13_HistoryChain ==
  \A o \in OrderIds : orders[o].status # "None" =>
    LET h == HistoryRows(o)
    IN /\ Len(h) >= 1
       /\ h[1].old_status = "None" /\ h[1].new_status = "Created"
       /\ \A k \in 2..Len(h) : h[k].old_status = h[k - 1].new_status
       /\ h[Len(h)].new_status = orders[o].status

IsPrefix(a, b) == Len(a) <= Len(b) /\ \A k \in 1..Len(a) : b[k] = a[k]

Mirror(status) ==
  CASE status = "Delivered" -> "Completed"
    [] status = "Cancelled" -> "Cancelled"
    [] OTHER -> "Pending"

\* C15: every order has exactly one payment, whose status goes with the order's:
\* Pending for Created and Shipped, Completed for Delivered, Cancelled for
\* Cancelled; and every payment status stored is one the payments table accepts.
C15_PaymentMirrorsOrder ==
  /\ \A o \in OrderIds : orders[o].status # "None" =>
       /\ Cardinality(PaymentsOf(tx, o)) = 1
       /\ \A k \in PaymentsOf(tx, o) : payments[k].status = Mirror(orders[o].status)
  /\ \A k \in 1..Len(payments) : PaymentStatusCheck(payments[k].status)

\* A status change of t to target commits on an order whose status is from.
CommitsChange(t, from, target) ==
  /\ tx[t].op = "changeOrderStatus" /\ tx[t].new_status = target
  /\ tx[t].pc \in {"update", "payment"}
  /\ tx'[t].pc = "done" /\ tx'[t].result = "ok"
  /\ orders[tx[t].order_id].status = from

\* The history gains one row for order o, from -> target, and nothing else.
OneRowAppended(o, from, target) ==
  /\ Len(history') = Len(history) + 1
  /\ IsPrefix(history, history')
  /\ LET row == history'[Len(history')]
     IN row.order_id = o /\ row.old_status = from /\ row.new_status = target

\* C16: a change to Shipped that commits on a Created order changes the order's
\* status, appends the history row Created -> Shipped, and nothing else: stocks,
\* ledger, items, totals, delivered_at, payments and the other orders stay.
C16_ShippedChangesStatusOnly ==
  [][\A t \in Txs : CommitsChange(t, "Created", "Shipped") =>
       LET o == tx[t].order_id
       IN /\ orders' = [orders EXCEPT ![o].status = "Shipped"]
          /\ OneRowAppended(o, "Created", "Shipped")
          /\ UNCHANGED <<product, ledger, orderItems, payments, cartItems>>]_vars

\* C16 witness: an order set to Shipped by a change that succeeded: never
\* delivered, its payment Pending, two history rows, its unit of stock taken.
C16_Witness ==
  \E t \in Txs :
    /\ tx[t].op = "changeOrderStatus" /\ tx[t].new_status = "Shipped"
    /\ tx[t].pc = "done" /\ tx[t].result = "ok"
    /\ orders[tx[t].order_id].status = "Shipped"
    /\ ~orders[tx[t].order_id].delivered_at
    /\ \A k \in PaymentsOf(tx, tx[t].order_id) : payments[k].status = "Pending"
    /\ Len(HistoryRows(tx[t].order_id)) = 2
    /\ product[1].stock_quantity = InitialStock - 1

\* C17: a change to Delivered that commits on a Shipped order sets the status
\* and delivered_at, appends the history row Shipped -> Delivered and sets the
\* order's payment to Completed; no stock and no ledger row changes.
C17_DeliveredEffect ==
  [][\A t \in Txs : CommitsChange(t, "Shipped", "Delivered") =>
       LET o == tx[t].order_id
       IN /\ orders' = [orders EXCEPT ![o].status = "Delivered",
                                      ![o].delivered_at = TRUE]
          /\ OneRowAppended(o, "Shipped", "Delivered")
          /\ Len(payments') = Len(payments)
          /\ \A k \in 1..Len(payments) :
               payments'[k] = IF payments[k].order_id = o
                                THEN [payments[k] EXCEPT !.status = "Completed"]
                                ELSE payments[k]
          /\ UNCHANGED <<product, ledger, orderItems, cartItems>>]_vars

\* C17 witness: an order delivered by a change that succeeded, its payment
\* Completed, three history rows, and the ledger as the placement left it.
C17_Witness ==
  \E t \in Txs :
    /\ tx[t].op = "changeOrderStatus" /\ tx[t].new_status = "Delivered"
    /\ tx[t].pc = "done" /\ tx[t].result = "ok"
    /\ orders[tx[t].order_id].status = "Delivered"
    /\ orders[tx[t].order_id].delivered_at
    /\ \E k \in PaymentsOf(tx, tx[t].order_id) : payments[k].status = "Completed"
    /\ Len(HistoryRows(tx[t].order_id)) = 3
    /\ Len(ledger) = 2 /\ product[1].stock_quantity = InitialStock - 1

\* The change a finished request made to the stock of product p, had it committed.
Delta(t, p) ==
  IF tx[t].pc # "done" \/ tx[t].result # "ok" THEN 0
  ELSE CASE tx[t].op = "adjustStock" ->
              IF tx[t].product_id = p THEN tx[t].quantity_change ELSE 0
         [] tx[t].op = "placeOrder" -> -SumQuantity(tx[t].items, p)
         [] OTHER -> 0

\* C18: two requests, one of them an adjustment of the stock of product 1, the
\* other an adjustment, a placement or a cancellation, run against each other:
\* once both have ended, the stock of product 1 is its initial stock plus the
\* changes of those that committed.
C18_NoLostUpdate ==
  ( /\ ops = 2
    /\ \A t \in Txs : tx[t].pc = "done"
    /\ \E t \in Txs : tx[t].op = "adjustStock" /\ tx[t].product_id = 1
    /\ \A t \in Txs : tx[t].op \in {"adjustStock", "placeOrder", "cancelOrder"} )
  => product[1].stock_quantity = InitialStock + Delta(1, 1) + Delta(2, 1)

\* C19: an adjustment with an admin reason of an active product whose stock plus
\* the change is not negative goes on to write: it sets the stock to the stock it
\* read (which it returns as previous) plus the change, appends the one ledger
\* row (change, reason), changes nothing else and returns previous, change and
\* their sum; an adjustment with another reason, of a missing or inactive
\* product, or taking the stock below zero, fails and changes no row.
C19_AdjustStockContract ==
  [][\A t \in Txs :
       /\ ( Free(t) /\ Ran(t) /\ tx'[t].op = "adjustStock" ) =>
            LET r == tx'[t]
                p == product[r.product_id]
                accepted == /\ r.reason \in {"admin_add", "admin_remove"}
                            /\ p.exists /\ p.is_active
                            /\ p.stock_quantity + r.quantity_change >= 0
            IN /\ UNCHANGED db
               /\ IF accepted
                    THEN r.pc = "write" /\ r.currentStock = p.stock_quantity
                    ELSE r.pc = "done" /\ r.result # "ok"
       /\ ( tx[t].op = "adjustStock" /\ tx[t].pc = "write" /\ Ran(t) ) =>
            LET r == tx[t]
                previous == r.currentStock
                delta == r.quantity_change
            IN /\ tx'[t].pc = "done" /\ tx'[t].result = "ok"
               /\ product' = [product EXCEPT
                    ![r.product_id].stock_quantity = previous + delta]
               /\ ledger' = Append(ledger,
                    [product_id |-> r.product_id, quantity_change |-> delta,
                     reason |-> r.reason, related_order_id |-> Null])
               /\ UNCHANGED <<orders, orderItems, payments, history, cartItems>>
               /\ AdjustStockReturn(r) =
                    [product_id |-> r.product_id, previous_stock |-> previous,
                     quantity_change |-> delta, new_stock |-> previous + delta]
               /\ AdjustStockReturn(r).new_stock = product'[r.product_id].stock_quantity]_vars

\* C19 witness: product 2, seeded with one unit, has been adjusted by -1 (its
\* stock is 0 and the ledger has the row), and a further adjustment by -1 has
\* failed for lack of stock.
C19_Witness ==
  \E t \in Txs :
    /\ tx[t].op = "adjustStock" /\ tx[t].pc = "done"
    /\ tx[t].result = "InsufficientStock"
    /\ tx[t].product_id = 2 /\ tx[t].quantity_change = -1
    /\ product[2].stock_quantity = 0
    /\ ledger = << StockRow(1, InitialStock, "admin_add", Null),
                   StockRow(2, 1, "admin_add", Null),
                   StockRow(2, -1, "admin_remove", Null) >>

\* C20: every stored order has exactly one of user_id and guest_id; and a
\* placement that names both or neither, or has no items, ends at once with an
\* error, with no statement run: no row changes and no order id is drawn.
C20_OwnerExactlyOne ==
  [][/\ \A o \in OrderIds : orders'[o].status # "None" =>
          (orders'[o].user_id # Null) # (orders'[o].guest_id # Null)
     /\ \A t \in Txs :
          ( /\ Free(t) /\ Ran(t) /\ tx'[t].op = "placeOrder"
            /\ \/ tx'[t].user_id # Null /\ tx'[t].guest_id # Null
               \/ tx'[t].user_id = Null /\ tx'[t].guest_id = Null
               \/ Len(tx'[t].items) = 0 )
          => /\ tx'[t].pc = "done" /\ tx'[t].result \in {"OwnerAmbiguous", "EmptyOrder"}
             /\ tx'[t].locks = {}
             /\ UNCHANGED db /\ UNCHANGED nextOrderId]_vars

\* C20 witness: a guest's order is stored, and a placement naming neither a user
\* nor a guest has been refused and has left no second order.
C20_Witness ==
  /\ orders[1].status = "Created"
  /\ orders[1].user_id = Null /\ orders[1].guest_id = 1
  /\ orders[2] = NoOrder /\ nextOrderId = 2
  /\ \E t \in Txs : /\ Placed(t) /\ tx[t].result = "OwnerAmbiguous"
                    /\ tx[t].user_id = Null /\ tx[t].guest_id = Null

\* C21: a cancellation whose order is missing, belongs to another user or
\* belongs to a guest ends with the not-found error; a caller with role Guest is
\* turned away before the service runs; in each case no row of any table changes.
C21_OnlyOwnerCancels ==
  [][\A t \in Txs :
       /\ ( /\ tx[t].op = "cancelOrder" /\ tx[t].pc = "read" /\ Ran(t)
            /\ LET order == orders[tx[t].order_id]
               IN \/ order.status = "None"
                  \/ order.user_id # tx[t].user_id )
          => /\ tx'[t].pc = "done" /\ tx'[t].result = "OrderNotFound"
             /\ UNCHANGED db
       /\ ( /\ Free(t) /\ Ran(t) /\ tx'[t].op = "cancelOrder"
            /\ tx'[t].guest_id # Null )
          => /\ tx'[t].pc = "done" /\ tx'[t].result = "GuestForbidden"
             /\ UNCHANGED db]_vars

\* C21 witness: user 2 has asked to cancel the order of user 1 and got the
\* not-found error; the order is still Created, its payment Pending, its stock taken.
C21_Witness ==
  \E t \in Txs :
    /\ tx[t].op = "cancelOrder" /\ tx[t].pc = "done"
    /\ tx[t].result = "OrderNotFound" /\ tx[t].user_id = 2
    /\ orders[tx[t].order_id].status = "Created"
    /\ orders[tx[t].order_id].user_id = 1
    /\ \A k \in PaymentsOf(tx, tx[t].order_id) : payments[k].status = "Pending"
    /\ Len(HistoryRows(tx[t].order_id)) = 1
    /\ \A k \in 1..Len(ledger) : ledger[k].reason # "cancellation"

C23_ItemsCheckedIndependently ==
  [][\A t \in Txs :
       ( /\ tx[t].op = "placeOrder" /\ tx[t].pc = "validate" /\ Ran(t)
         /\ LET item == tx[t].items[tx[t].i]
                p == product[item.product_id]
            IN p.exists /\ p.is_active /\ item.quantity <= p.stock_quantity )
       => /\ tx'[t].pc \in {"validate", "items"}
          /\ Len(tx'[t].validatedItems) = Len(tx[t].validatedItems) + 1]_vars

\* C23 witness: a request of 1 and then 2 units of product 1, whose stock is 2,
\* has passed the validation of both items and stands at its write loop.
C23_Witness ==
  \E t \in Txs :
    /\ tx[t].op = "placeOrder" /\ tx[t].pc = "items"
    /\ tx[t].items = <<Item(1, 1), Item(1, 2)>>
    /\ Len(tx[t].validatedItems) = 2
    /\ product[1].stock_quantity = 2
    /\ SumQuantity(tx[t].validatedItems, 1) > product[1].stock_quantity

ReviewsQuiescent == \A t \in Txs : ReviewFree(t)

\* C24: once every review request has completed, each product's reviews_count
\* is the number of its reviews that are approved and not hidden, and its
\* average_rating their average (0 when there are none).
C24_StatsMatchReviews ==
  ReviewsQuiescent =>
    \A p \in Products :
      /\ stats[p].reviews_count = Cardinality(Counted(p))
      /\ stats[p].average_rating =
           IF Counted(p) = {} THEN 0
           ELSE SumRatings(Counted(p)) \div Cardinality(Counted(p))

RECURSIVE Ancestors(_, _)
Ancestors(c, n) ==
  IF n = 0 \/ category[c].parent_id = Null THEN {}
  ELSE {category[c].parent_id} \cup Ancestors(category[c].parent_id, n - 1)

\* C25: no category is its own ancestor.
C25_CategoriesAcyclic ==
  \A c \in CategoryIds :
    category[c].exists => c \notin Ancestors(c, MaxCategories)

\* A cancellation by the customer that has read the order as Created and has
\* run its restore loop inside its transaction.
CancelRestored(t, o) ==
  /\ tx[t].op = "cancelOrder" /\ tx[t].pc = "update"
  /\ tx[t].order_id = o /\ Len(tx[t].wLedger) >= 1

HasDuplicate(items) ==
  \E i \in 1..Len(items), j \in 1..Len(items) :
    i # j /\ items[i].product_id = items[j].product_id

\* C28: a placeOrder whose items name the same product more than once never
\* commits: no step it takes changes the stock, the ledger, the orders, their
\* items, the payments, the history or a cart, and it never ends with success.
C28_DuplicateItemsNeverCommit ==
  [][ \A t \in Txs :
        ( /\ tx'[t] # tx[t]
          /\ tx'[t].op = "placeOrder" /\ HasDuplicate(tx'[t].items) )
        => /\ UNCHANGED db
           /\ tx'[t].result # "ok" ]_vars

\* A placement with a repeated product passed validation, drew an order id,
\* was refused in the write loop, and its order does not exist.
C28_Witness ==
  \E t \in Txs :
    /\ tx[t].op = "placeOrder" /\ tx[t].pc = "done"
    /\ HasDuplicate(tx[t].items)
    /\ tx[t].result = "ConstraintViolation"
    /\ tx[t].order_id # Null
    /\ orders[tx[t].order_id].status = "None"
    /\ ItemsOf(tx[t].order_id) = {}

\* C29: an order's delivered_at is set exactly when its status is Delivered.
C29_DeliveredAtIffDelivered ==
  \A o \in OrderIds :
    orders[o].status # "None" =>
      (orders[o].delivered_at <=> orders[o].status = "Delivered")

\* The order named by a ledger row has an item of the row's product whose
\* quantity is the size of the row's change.
MatchesOrderItem(row) ==
  /\ row.related_order_id # Null
  /\ \E it \in ItemsOf(row.related_order_id) :
       /\ it.product_id = row.product_id
       /\ (it.quantity = row.quantity_change \/ it.quantity = -row.quantity_change)

WellTyped(row) ==
  CASE row.reason = "purchase" -> row.quantity_change < 0 /\ MatchesOrderItem(row)
    [] row.reason = "cancellation" -> row.quantity_change > 0 /\ MatchesOrderItem(row)
    [] row.reason = "admin_add" ->
         row.quantity_change >= 0 /\ row.related_order_id = Null
    [] row.reason = "admin_remove" ->
         row.quantity_change <= 0 /\ row.related_order_id = Null
    [] OTHER -> FALSE

\* C30: every ledger row is well-typed for its reason (purchase: negative, with
\* an order item of that product and quantity; cancellation: positive, with the
\* same match; admin_add: not negative, admin_remove: not positive, neither with
\* an order), and the ledger only grows: no row is updated or deleted.
C30_LedgerWellTyped ==
  /\ [](\A k \in 1..Len(ledger) : WellTyped(ledger[k]))
  /\ [][IsPrefix(ledger, ledger')]_vars

====
